---- MODULE Spec2Model ----
(***************************************************************************)
(* A model of the two catalog scripts:                                     *)
(*   simplify_catalogs.py  - strips ICD-10 rows, clinical boxes and        *)
(*                           med-necessity boxes from the catalog files;   *)
(*   validate_inventory.py - parses the catalogs and inventory_before.txt, *)
(*                           compares them and renders a report.           *)
(*                                                                         *)
(* Text is modelled as a sequence of pieces.  A piece is either a markup   *)
(* literal that one of the regular expressions names (an opening tag with  *)
(* its class attribute, a closing tag, a style rule) or a maximal run of   *)
(* characters without "<": "WS" is a run of whitespace, any other string a *)
(* run that starts and ends with a non-blank character.  A text value (a   *)
(* name, a code) is the sequence of the pieces it spans, so the empty      *)
(* string is << >>.  The regular expressions are evaluated on pieces the   *)
(* way re evaluates them on characters: leftmost match first, lazy and     *)
(* greedy quantifiers as written, non-overlapping substitutions.           *)
(***************************************************************************)
EXTENDS Integers, Sequences, FiniteSets, TLC

VARIABLES
    mode,        \* which script / function the behaviour exercises
    pc,          \* position in that script
    file,        \* catalog document under edit (sequence of pieces)
    nfrag,       \* number of fragments written to file so far
    orig,        \* content of file before simplify_catalogs touched it
    strip_ok,    \* return value of process_file on file
    after_data,  \* result of parse_html_file on file
    inventory,   \* inventory_before.txt (sequence of lines)
    nblock,      \* number of blocks of lines written to inventory so far
    before_inventory,  \* result of parse_inventory_before on inventory
    before_data, \* first argument of compare_inventories
    comparison,  \* result of compare_inventories(before_data, after_data, ...)
    comparisons, \* the list of comparison results main collects
    report,      \* the lines generate_report returned
    disk,        \* the catalog files: state and content of each
    inv_ok,      \* inventory_before.txt can be read
    idx,         \* position of main's current loop in the file list
    after_inventory,  \* main's map from file name to parse_html_file's result
    exit_status, \* exit status of the script (-1 while it runs)
    success_count,    \* simplify_catalogs.main's counter
    log          \* the outcome simplify_catalogs.main printed for each file

vars == <<mode, pc, file, nfrag, orig, strip_ok, after_data,
          inventory, nblock, before_inventory, before_data, comparison,
          comparisons, report, disk, inv_ok, idx, after_inventory,
          exit_status, success_count, log>>

extractVars == <<file, nfrag, orig, strip_ok, after_data>>
readerVars  == <<inventory, nblock, before_inventory>>
compareVars == <<before_data, comparison>>
reportVars  == <<comparisons, report>>
runVars     == <<disk, inv_ok, idx, after_inventory, exit_status, success_count, log>>

---------------------------------------------------------------------------
(* Bounds *)

MaxFrags == 4
MaxBlocks == 4
MaxProducts == 2
MaxCodes == 2
MaxCats == 1
MaxDecl == 1
MaxFaults == 1

---------------------------------------------------------------------------
(* Pieces of a catalog document *)

\* the markup literals the regular expressions of both scripts name
Markup ==
    { "CAT",      \* <div class="category-header">
      "CARD",     \* <div class="product-card">
      "NAME",     \* <div class="product-name">
      "HC",       \* <span class="hcpcs-code">
      "ROW",      \* <div class="code-row">
      "ICDLBL",   \* <div class="code-label">ICD-10 Codes   (its </div> is a DIVC)
      "CLIN",     \* <div class="clinical-box">
      "MED",      \* <div class="med-necessity">
      "DIV",      \* any other opening <div ...>
      "SPAN",     \* any other opening <span ...>
      "DIVC",     \* </div>
      "SPANC" }   \* </span>

\* .product-card { ... } style rules, by padding and page-break-inside
CardRules ==
    { "RULE_CARD", "RULE_CARD_20", "RULE_CARD_15",
      "RULE_CARD_AUTO", "RULE_CARD_20_AUTO", "RULE_CARD_15_AUTO",
      "RULE_CARD_AVOID", "RULE_CARD_20_AVOID", "RULE_CARD_15_AVOID" }

\* .clinical-box { ... } and .med-necessity { ... } style rules
BoxRules == { "RULE_CLIN", "RULE_MED" }

IsText(t) == t \notin Markup \cup CardRules \cup BoxRules

IsSpace(t) == t = "WS"

\* s[a..b], empty when a > b
Slice(s, a, b) == IF a > b THEN << >> ELSE SubSeq(s, a, b)

\* first index >= i of s that is not whitespace (Len(s)+1 when there is none)
RECURSIVE SkipSpace(_, _)
SkipSpace(s, i) ==
    IF i <= Len(s) /\ IsSpace(s[i]) THEN SkipSpace(s, i + 1) ELSE i

\* last index of the maximal run of text pieces starting at i (i-1 when empty)
RECURSIVE RunEnd(_, _)
RunEnd(s, i) ==
    IF i <= Len(s) /\ IsText(s[i]) THEN RunEnd(s, i + 1) ELSE i - 1

\* first index >= i of s holding piece t (0 when there is none)
RECURSIVE IndexOf(_, _, _)
IndexOf(s, t, i) ==
    IF i > Len(s) THEN 0
    ELSE IF s[i] = t THEN i
    ELSE IndexOf(s, t, i + 1)

\* str.strip()
RECURSIVE strip(_)
strip(run) ==
    IF run = << >> THEN << >>
    ELSE IF IsSpace(Head(run)) THEN strip(Tail(run))
    ELSE IF IsSpace(run[Len(run)]) THEN strip(Slice(run, 1, Len(run) - 1))
    ELSE run

---------------------------------------------------------------------------
(* simplify_catalogs.py: simplify_html *)

\* end of the match of
\*   <div class="code-row">\s*<div class="code-label">ICD-10 Codes</div>.*?</div>\s*</div>
\* tried from index m on for the lazy .*? ; 0 when the tail never matches
RECURSIVE IcdTail(_, _)
IcdTail(s, m) ==
    LET d == IndexOf(s, "DIVC", m)
        e == SkipSpace(s, d + 1)
    IN  IF d = 0 THEN 0
        ELSE IF e <= Len(s) /\ s[e] = "DIVC" THEN e
        ELSE IcdTail(s, d + 1)

\* end index of the ICD-10 row match starting at i, 0 when there is none
IcdMatch(s, i) ==
    LET j == SkipSpace(s, i + 1)
    IN  IF s[i] = "ROW" /\ j + 1 <= Len(s) /\ s[j] = "ICDLBL" /\ s[j + 1] = "DIVC"
        THEN IcdTail(s, j + 2)
        ELSE 0

\* end index of the match of <div class="X">.*?</div> starting at i
BoxMatch(s, i, open) ==
    IF s[i] = open THEN IndexOf(s, "DIVC", i + 1) ELSE 0

MatchEnd(kind, s, i) ==
    CASE kind = "icd"  -> IcdMatch(s, i)
      [] kind = "clin" -> BoxMatch(s, i, "CLIN")
      [] kind = "med"  -> BoxMatch(s, i, "MED")

\* re.sub(pattern, '', content): leftmost non-overlapping matches removed
RECURSIVE RemoveFrom(_, _, _)
RemoveFrom(kind, s, i) ==
    IF i > Len(s) THEN << >>
    ELSE LET e == MatchEnd(kind, s, i)
         IN  IF e > 0 THEN RemoveFrom(kind, s, e + 1)
             ELSE <<s[i]>> \o RemoveFrom(kind, s, i + 1)

RemoveAll(kind, s) == RemoveFrom(kind, s, 1)

\* re.sub of the two style-rule patterns
RemoveRule(rule, s) == SelectSeq(s, LAMBDA t : t # rule)

\* (\.product-card\s*\{[^}]*padding:\s*)\d+px  ->  \g<1>15px
SetPadding(t) ==
    CASE t = "RULE_CARD_20"       -> "RULE_CARD_15"
      [] t = "RULE_CARD_20_AUTO"  -> "RULE_CARD_15_AUTO"
      [] t = "RULE_CARD_20_AVOID" -> "RULE_CARD_15_AVOID"
      [] OTHER -> t

\* (\.product-card\s*\{[^}]*)(page-break-inside:\s*[^;]+;) -> page-break-inside: avoid;
SetPageBreak(t) ==
    CASE t = "RULE_CARD_AUTO"    -> "RULE_CARD_AVOID"
      [] t = "RULE_CARD_20_AUTO" -> "RULE_CARD_20_AVOID"
      [] t = "RULE_CARD_15_AUTO" -> "RULE_CARD_15_AVOID"
      [] OTHER -> t

HasPageBreak(t) ==
    t \in { "RULE_CARD_AUTO", "RULE_CARD_20_AUTO", "RULE_CARD_15_AUTO",
            "RULE_CARD_AVOID", "RULE_CARD_20_AVOID", "RULE_CARD_15_AVOID" }

\* (\.product-card\s*\{) -> \g<1>\n page-break-inside: avoid;   (a rule that
\* already declares it declares it twice, which is the same rule)
AddPageBreak(t) ==
    CASE t = "RULE_CARD"    -> "RULE_CARD_AVOID"
      [] t = "RULE_CARD_20" -> "RULE_CARD_20_AVOID"
      [] t = "RULE_CARD_15" -> "RULE_CARD_15_AVOID"
      [] OTHER -> t

MapSeq(Op(_), s) == [i \in 1..Len(s) |-> Op(s[i])]

\* index of the first .product-card rule: re.search(r'\.product-card\s*\{[^}]*\}')
RECURSIVE FirstCardRule(_, _)
FirstCardRule(s, i) ==
    IF i > Len(s) THEN 0
    ELSE IF s[i] \in CardRules THEN i
    ELSE FirstCardRule(s, i + 1)

\* re.sub(r'\n\s*\n\s*\n+', '\n\n'): whitespace runs stay whitespace runs;
\* runs that became adjacent are one run
RECURSIVE CleanWhitespace(_)
CleanWhitespace(s) ==
    IF Len(s) < 2 THEN s
    ELSE IF IsSpace(s[1]) /\ IsSpace(s[2]) THEN CleanWhitespace(Tail(s))
    ELSE <<s[1]>> \o CleanWhitespace(Tail(s))

\* the result is [ok |-> TRUE, content |-> ...], or ok = FALSE when line 74
\* raises AttributeError (re.search found no .product-card rule)
simplify_html(content) ==
    LET c1 == RemoveAll("icd", content)
        c2 == RemoveAll("clin", c1)
        c3 == RemoveAll("med", c2)
        c4 == RemoveRule("RULE_CLIN", c3)
        c5 == RemoveRule("RULE_MED", c4)
        c6 == MapSeq(SetPadding, c5)
        c7 == MapSeq(SetPageBreak, c6)
        k  == FirstCardRule(c7, 1)
        c8 == IF k > 0 /\ ~HasPageBreak(c7[k]) THEN MapSeq(AddPageBreak, c7) ELSE c7
    IN  IF k = 0 THEN [ok |-> FALSE, content |-> content]
        ELSE [ok |-> TRUE, content |-> CleanWhitespace(c8)]

\* process_file with the file opened for writing before simplify_html is called
process_file_truncating(entry) ==
    LET r == simplify_html(entry.content)
    IN  IF entry.status = "unreadable" THEN [ok |-> FALSE, content |-> entry.content]
        ELSE IF entry.status = "readonly" THEN [ok |-> FALSE, content |-> entry.content]
        ELSE IF ~r.ok THEN [ok |-> FALSE, content |-> << >>]
        ELSE [ok |-> TRUE, content |-> r.content]

\* process_file on a file that exists: what it leaves in the file and what
\* it returns.  Reading an unreadable file, simplify_html and opening a
\* read-only file for writing raise inside the try block.
process_file(entry) ==
    LET r == simplify_html(entry.content)
    IN  IF entry.status = "unreadable" THEN [ok |-> FALSE, content |-> entry.content]
        ELSE IF ~r.ok THEN [ok |-> FALSE, content |-> entry.content]
        ELSE IF entry.status = "readonly" THEN [ok |-> FALSE, content |-> entry.content]
        ELSE [ok |-> TRUE, content |-> r.content]

---------------------------------------------------------------------------
(* validate_inventory.py: parse_html_file *)

\* re.findall(r'<div class="category-header">\s*([^<]+)\s*</div>') and strip
RECURSIVE FindCategories(_, _)
FindCategories(s, i) ==
    IF i > Len(s) THEN << >>
    ELSE LET e == RunEnd(s, i + 1)
         IN  IF s[i] = "CAT" /\ e >= i + 1 /\ e + 1 <= Len(s) /\ s[e + 1] = "DIVC"
             THEN <<strip(Slice(s, i + 1, e))>> \o FindCategories(s, e + 2)
             ELSE FindCategories(s, i + 1)

\* content.split('<div class="product-card">')
RECURSIVE SplitCards(_, _)
SplitCards(s, acc) ==
    IF s = << >> THEN <<acc>>
    ELSE IF Head(s) = "CARD" THEN <<acc>> \o SplitCards(Tail(s), << >>)
    ELSE SplitCards(Tail(s), Append(acc, Head(s)))

\* re.search(open ([^<]+) close, card): index of the leftmost match, 0 if none
RECURSIVE SearchMarked(_, _, _, _)
SearchMarked(card, open, close, i) ==
    IF i > Len(card) THEN 0
    ELSE LET e == RunEnd(card, i + 1)
         IN  IF card[i] = open /\ e >= i + 1 /\ e + 1 <= Len(card) /\ card[e + 1] = close
             THEN i
             ELSE SearchMarked(card, open, close, i + 1)

\* match.group(1).strip()
Group1(card, i) == strip(Slice(card, i + 1, RunEnd(card, i + 1)))

\* the products of one card: none, or one with or without the 'hcpcs' key
CardProducts(card) ==
    LET n == SearchMarked(card, "NAME", "DIVC", 1)
        h == SearchMarked(card, "HC", "SPANC", 1)
    IN  IF n = 0 THEN << >>
        ELSE IF h = 0 THEN << [name |-> Group1(card, n)] >>
        ELSE << [name |-> Group1(card, n), hcpcs |-> Group1(card, h)] >>

RECURSIVE FlattenCards(_)
FlattenCards(cards) ==
    IF cards = << >> THEN << >>
    ELSE CardProducts(Head(cards)) \o FlattenCards(Tail(cards))

parse_html_file(content) ==
    LET categories == FindCategories(content, 1)
        products   == FlattenCards(Tail(SplitCards(content, << >>)))
    IN  [ categories     |-> categories,
          products       |-> products,
          num_categories |-> Len(categories),
          num_products   |-> Len(products) ]

NoData == [categories |-> << >>, products |-> << >>, num_categories |-> 0, num_products |-> 0]

---------------------------------------------------------------------------
(* The values of the variables a behaviour does not use *)

IdleExtract ==
    /\ file = << >>
    /\ nfrag = 0
    /\ orig = << >>
    /\ strip_ok = FALSE
    /\ after_data = NoData

IdleReader ==
    /\ inventory = << >>
    /\ nblock = 0
    /\ before_inventory = << >>

NoComparison == [raised |-> FALSE, file |-> ""]

IdleCompare ==
    /\ before_data = NoData
    /\ comparison = NoComparison

IdleReport ==
    /\ comparisons = << >>
    /\ report = << >>

IdleRun ==
    /\ disk = << >>
    /\ inv_ok = TRUE
    /\ idx = 0
    /\ after_inventory = << >>
    /\ exit_status = -1
    /\ success_count = 0
    /\ log = << >>

---------------------------------------------------------------------------
(* One catalog file: written, stripped by simplify_catalogs, parsed by      *)
(* validate_inventory                                                       *)

\* <style> blocks a catalog may start with
StyleHeads ==
    { << >>,
      <<"RULE_CLIN", "RULE_CARD_20", "RULE_MED">>,
      <<"RULE_CARD_AUTO">> }

\* what the catalog generator may write next
Fragments ==
    { <<"CAT", "Mobility", "DIVC">>,
      <<"CAT", "WS", "DIVC">>,
      <<"CARD">>,
      <<"NAME", "Cane", "DIVC">>,
      <<"NAME", "WS", "Walker", "WS", "DIVC">>,
      \* code row: label, then the code inside its value div
      <<"ROW", "DIV", "HCPCS Code", "DIVC", "DIV", "HC", "E0100", "SPANC", "DIVC", "DIVC">>,
      <<"HC", "WS", "SPANC">>,
      \* ICD-10 row: label, then the codes inside their value div
      <<"ROW", "WS", "ICDLBL", "DIVC", "DIV", "E11.9", "DIVC", "WS", "DIVC">>,
      \* ICD-10 row whose codes are bare text
      <<"ROW", "ICDLBL", "DIVC", "E11.9", "DIVC">>,
      <<"CLIN", "Indications", "DIVC">>,
      \* clinical box with a title div inside
      <<"CLIN", "DIV", "Indications", "DIVC", "WS", "DIVC">>,
      <<"MED", "Documentation", "DIVC">>,
      <<"DIVC">> }

InitExtract ==
    /\ mode = "extract"
    /\ pc = "edit"
    /\ file \in StyleHeads
    /\ nfrag = 0
    /\ orig = << >>
    /\ strip_ok = FALSE
    /\ after_data = NoData
    /\ IdleReader
    /\ IdleCompare
    /\ IdleReport
    /\ IdleRun

WriteFragment(f) ==
    /\ mode = "extract" /\ pc = "edit"
    /\ nfrag < MaxFrags
    /\ file' = file \o f
    /\ nfrag' = nfrag + 1
    /\ UNCHANGED <<mode, pc, orig, strip_ok, after_data, readerVars, compareVars, reportVars, runVars>>

\* simplify_catalogs.py rewrites the file in place
StripFile ==
    /\ mode = "extract" /\ pc = "edit"
    /\ LET r == process_file([status |-> "ok", content |-> file])
       IN  /\ file' = r.content
           /\ strip_ok' = r.ok
    /\ orig' = file
    /\ pc' = "stripped"
    /\ UNCHANGED <<mode, nfrag, after_data, readerVars, compareVars, reportVars, runVars>>

\* validate_inventory.py reads the file
ParseFile ==
    /\ mode = "extract" /\ pc \in {"edit", "stripped"}
    /\ after_data' = parse_html_file(file)
    /\ pc' = "parsed"
    /\ UNCHANGED <<mode, file, nfrag, orig, strip_ok, readerVars, compareVars, reportVars, runVars>>

NextExtract ==
    \/ \E f \in Fragments : WriteFragment(f)
    \/ StripFile
    \/ ParseFile

SpecExtract == InitExtract /\ [][NextExtract]_vars

---------------------------------------------------------------------------
(* validate_inventory.py: parse_inventory_before *)

(* inventory_before.txt is a sequence of lines.  A line is a record: k is   *)
(* its shape, and n, code, name, fname the number, code, name and file      *)
(* name written on it.                                                      *)
(*   FILE      the three-line delimiter ={80,} / FILE: <fname> / ={80,}     *)
(*   STATS     STATISTICS:                                                  *)
(*   TOTCAT    Total categories: <n>                                        *)
(*   TOTPROD   Total products: <n>                                          *)
(*   UNIQ      Unique HCPCS codes: <n>                                      *)
(*   CATS      CATEGORIES:                                                  *)
(*   CATLINE   <index>. <name>                                              *)
(*   CODES     ALL HCPCS CODES (sorted, unique):                            *)
(*   CODELINE  <code>                                                       *)
(*   PRODS     COMPLETE PRODUCT LIST:                                       *)
(*   PRODLINE  <index>. [<code>] <name>                                     *)
(*   SEP       a line of = signs                                            *)
(*   BLANK     an empty line                                                *)
Line(k, n, code, name, fname) ==
    [k |-> k, n |-> n, code |-> code, name |-> name, fname |-> fname]

Plain(k)           == Line(k, 0, << >>, << >>, "")
FileLine(fname)    == Line("FILE", 0, << >>, << >>, fname)
NumLine(k, n)      == Line(k, n, << >>, << >>, "")
CatLine(name)      == Line("CATLINE", 0, << >>, name, "")
CodeLine(code)     == Line("CODELINE", 0, code, << >>, "")
ProdLine(code, nm) == Line("PRODLINE", 0, code, nm, "")

\* line.strip(): the text of a line
LineText(l) ==
    CASE l.k = "STATS"    -> <<"STATISTICS:">>
      [] l.k = "TOTCAT"   -> <<"Total categories:", ToString(l.n)>>
      [] l.k = "TOTPROD"  -> <<"Total products:", ToString(l.n)>>
      [] l.k = "UNIQ"     -> <<"Unique HCPCS codes:", ToString(l.n)>>
      [] l.k = "CATS"     -> <<"CATEGORIES:">>
      [] l.k = "CATLINE"  -> <<"#.">> \o l.name
      [] l.k = "CODES"    -> <<"ALL HCPCS CODES (sorted, unique):">>
      [] l.k = "CODELINE" -> l.code
      [] l.k = "PRODS"    -> <<"COMPLETE PRODUCT LIST:">>
      [] l.k = "PRODLINE" -> <<"#.", "[">> \o l.code \o <<"]">> \o l.name
      [] l.k = "SEP"      -> <<"====">>
      [] l.k = "FILE"     -> <<"====", "FILE:", l.fname, "====">>
      [] OTHER            -> << >>

\* first index >= i of a line of shape k (0 when there is none)
RECURSIVE LineOf(_, _, _)
LineOf(ls, k, i) ==
    IF i > Len(ls) THEN 0
    ELSE IF ls[i].k = k THEN i
    ELSE LineOf(ls, k, i + 1)

\* \s+ between two lines: first index >= i that is not a blank line
RECURSIVE SkipBlank(_, _)
SkipBlank(ls, i) ==
    IF i <= Len(ls) /\ ls[i].k = "BLANK" THEN SkipBlank(ls, i + 1) ELSE i

\* re.search(r'STATISTICS:\s+Total categories: (\d+)\s+Total products: (\d+)
\*             \s+Unique HCPCS codes: (\d+)'): the groups of the leftmost match
RECURSIVE SearchStats(_, _)
SearchStats(ls, i) ==
    LET s == LineOf(ls, "STATS", i)
        a == SkipBlank(ls, s + 1)
        b == SkipBlank(ls, a + 1)
        c == SkipBlank(ls, b + 1)
    IN  IF s = 0 THEN [found |-> FALSE, g1 |-> 0, g2 |-> 0, g3 |-> 0]
        ELSE IF /\ c <= Len(ls)
                /\ ls[a].k = "TOTCAT" /\ ls[b].k = "TOTPROD" /\ ls[c].k = "UNIQ"
        THEN [found |-> TRUE, g1 |-> ls[a].n, g2 |-> ls[b].n, g3 |-> ls[c].n]
        ELSE SearchStats(ls, s + 1)

\* re.search(marker + r'(.*?)(?=' + stop + r'|$)', re.DOTALL).group(1): the
\* lines after the first marker line, up to the first stop line or the end
SectionLines(ls, marker, stop) ==
    LET m == LineOf(ls, marker, 1)
        e == LineOf(ls, stop, m + 1)
    IN  IF m = 0 THEN << >>
        ELSE IF e = 0 THEN Slice(ls, m + 1, Len(ls))
        ELSE Slice(ls, m + 1, e - 1)

\* first index >= i where the text reads \n\n\n: a line end and two empty lines
RECURSIVE TwoBlank(_, _)
TwoBlank(ls, i) ==
    IF i + 1 > Len(ls) THEN 0
    ELSE IF ls[i].k = "BLANK" /\ ls[i + 1].k = "BLANK" THEN i
    ELSE TwoBlank(ls, i + 1)

\* COMPLETE PRODUCT LIST:(.*?)(?=\n\n\n|$)
ProductLines(ls) ==
    LET m == LineOf(ls, "PRODS", 1)
        e == TwoBlank(ls, m + 1)
    IN  IF m = 0 THEN << >>
        ELSE IF e = 0 THEN Slice(ls, m + 1, Len(ls))
        ELSE Slice(ls, m + 1, e - 1)

\* lines matching \s*\d+\.\s+(.+): group(1).strip()
RECURSIVE CategoryNames(_)
CategoryNames(ls) ==
    IF ls = << >> THEN << >>
    ELSE IF Head(ls).k = "CATLINE"
         THEN <<Head(ls).name>> \o CategoryNames(Tail(ls))
    ELSE IF Head(ls).k = "PRODLINE"
         THEN <<<<"[">> \o Head(ls).code \o <<"]">> \o Head(ls).name>>
                  \o CategoryNames(Tail(ls))
    ELSE CategoryNames(Tail(ls))

\* every line that is neither empty nor starts with '='
RECURSIVE CodeTexts(_)
CodeTexts(ls) ==
    IF ls = << >> THEN << >>
    ELSE IF LineText(Head(ls)) # << >> /\ Head(ls).k \notin {"SEP", "FILE"}
         THEN <<LineText(Head(ls))>> \o CodeTexts(Tail(ls))
    ELSE CodeTexts(Tail(ls))

\* lines matching \s*\d+\.\s+\[([^\]]+)\]\s+(.+)
RECURSIVE ProductEntries(_)
ProductEntries(ls) ==
    IF ls = << >> THEN << >>
    ELSE IF Head(ls).k = "PRODLINE"
         THEN <<[hcpcs |-> Head(ls).code, name |-> Head(ls).name]>>
                  \o ProductEntries(Tail(ls))
    ELSE ProductEntries(Tail(ls))

Range(s) == {s[i] : i \in 1..Len(s)}

\* section_data with the declared product total ignored
section_data_counting(stats_match, categories, hcpcs_codes, products) ==
    [ num_categories   |-> IF stats_match.found THEN stats_match.g1
                           ELSE Len(categories),
      num_products     |-> Len(products),
      num_unique_hcpcs |-> IF stats_match.found THEN stats_match.g3
                           ELSE Cardinality(Range(hcpcs_codes)),
      categories       |-> categories,
      hcpcs_codes      |-> hcpcs_codes,
      products         |-> products ]

\* the dictionary stored in files_data[file_name]
section_data(stats_match, categories, hcpcs_codes, products) ==
    [ num_categories   |-> IF stats_match.found THEN stats_match.g1
                           ELSE Len(categories),
      num_products     |-> IF stats_match.found THEN stats_match.g2
                           ELSE Len(products),
      num_unique_hcpcs |-> IF stats_match.found THEN stats_match.g3
                           ELSE Cardinality(Range(hcpcs_codes)),
      categories       |-> categories,
      hcpcs_codes      |-> hcpcs_codes,
      products         |-> products ]

\* the body of the loop over the sections
parse_section(file_content) ==
    section_data(SearchStats(file_content, 1),
                 CategoryNames(SectionLines(file_content, "CATS", "CODES")),
                 CodeTexts(SectionLines(file_content, "CODES", "PRODS")),
                 ProductEntries(ProductLines(file_content)))

\* re.split on the FILE delimiter: the (file name, section) pairs in order
RECURSIVE SplitSections(_, _)
SplitSections(ls, i) ==
    LET f == LineOf(ls, "FILE", i)
        g == LineOf(ls, "FILE", f + 1)
    IN  IF f = 0 THEN << >>
        ELSE IF g = 0
             THEN << [fname |-> ls[f].fname, lines |-> Slice(ls, f + 1, Len(ls))] >>
        ELSE << [fname |-> ls[f].fname, lines |-> Slice(ls, f + 1, g - 1)] >>
                 \o SplitSections(ls, g)

\* a later section of the same file name overwrites an earlier one
LastSection(secs, fname) ==
    secs[CHOOSE i \in 1..Len(secs) :
            /\ secs[i].fname = fname
            /\ \A j \in (i + 1)..Len(secs) : secs[j].fname # fname].lines

parse_inventory_before(content) ==
    LET secs == SplitSections(content, 1)
    IN  [fname \in {secs[i].fname : i \in 1..Len(secs)} |->
            parse_section(LastSection(secs, fname))]

---------------------------------------------------------------------------
(* The inventory file: written, then read by parse_inventory_before          *)

\* what the inventory generator may write next
Blocks ==
    { <<FileLine("catalog_mobility_aids.html")>>,
      <<FileLine("catalog_therapeutic.html")>>,
      <<Plain("STATS"), NumLine("TOTCAT", 2), NumLine("TOTPROD", 3), NumLine("UNIQ", 1)>>,
      <<Plain("STATS"), NumLine("TOTCAT", 2), NumLine("TOTPROD", 3)>>,
      <<Plain("CATS")>>,
      <<CatLine(<<"Mobility">>)>>,
      <<Plain("CODES")>>,
      <<CodeLine(<<"E0100">>)>>,
      <<Plain("PRODS")>>,
      <<ProdLine(<<"E0100">>, <<"Cane">>)>>,
      <<ProdLine(<<"E0130">>, <<"Walker">>)>>,
      <<Plain("BLANK")>> }

InitReader ==
    /\ mode = "reader"
    /\ pc = "edit"
    /\ inventory \in { << >>, <<FileLine("catalog_mobility_aids.html")>> }
    /\ nblock = 0
    /\ before_inventory = << >>
    /\ IdleExtract
    /\ IdleCompare
    /\ IdleReport
    /\ IdleRun

WriteBlock(b) ==
    /\ mode = "reader" /\ pc = "edit"
    /\ nblock < MaxBlocks
    /\ inventory' = inventory \o b
    /\ nblock' = nblock + 1
    /\ UNCHANGED <<mode, pc, before_inventory, extractVars, compareVars, reportVars, runVars>>

ReadInventory ==
    /\ mode = "reader" /\ pc = "edit"
    /\ before_inventory' = parse_inventory_before(inventory)
    /\ pc' = "parsed"
    /\ UNCHANGED <<mode, inventory, nblock, extractVars, compareVars, reportVars, runVars>>

NextReader ==
    \/ \E b \in Blocks : WriteBlock(b)
    \/ ReadInventory

SpecReader == InitReader /\ [][NextReader]_vars

---------------------------------------------------------------------------
(* validate_inventory.py: compare_inventories *)

\* the text pieces in the order Python compares them as strings
PieceOrder ==
    << "WS", "", "#.", "====", "ALL HCPCS CODES (sorted, unique):", "CANE",
       "CATEGORIES:", "COMPLETE PRODUCT LIST:", "Cane", "Diabetic",
       "E0100", "E0130", "E11.9", "FILE:", "Mobility", "STATISTICS:",
       "Total categories:", "Total products:", "Unique HCPCS codes:",
       "WALKER", "Walker", "[", "]" >>

Rank(piece) == CHOOSE i \in 1..Len(PieceOrder) : PieceOrder[i] = piece

\* a < b for two texts
RECURSIVE Less(_, _)
Less(a, b) ==
    IF b = << >> THEN FALSE
    ELSE IF a = << >> THEN TRUE
    ELSE IF Head(a) = Head(b) THEN Less(Tail(a), Tail(b))
    ELSE Rank(Head(a)) < Rank(Head(b))

\* sorted(set)
RECURSIVE sorted(_)
sorted(S) ==
    IF S = {} THEN << >>
    ELSE LET m == CHOOSE x \in S : \A y \in S : y = x \/ Less(x, y)
         IN  <<m>> \o sorted(S \ {m})

UpperPiece(piece) ==
    CASE piece = "Cane"     -> "CANE"
      [] piece = "Walker"   -> "WALKER"
      [] piece = "Mobility" -> "MOBILITY"
      [] piece = "Diabetic" -> "DIABETIC"
      [] OTHER -> piece

\* str.upper()
upper(text) == [i \in 1..Len(text) |-> UpperPiece(text[i])]

\* {p['name'].upper(): p for p in products}[key]: the last product of that key
LastNamed(products, key) ==
    products[CHOOSE i \in 1..Len(products) :
                /\ upper(products[i].name) = key
                /\ \A j \in (i + 1)..Len(products) : upper(products[j].name) # key]

NameKeys(products) == {upper(products[i].name) : i \in 1..Len(products)}

\* [d[name]['name'] for name in sorted(names)]
NamesOf(products, keys) ==
    LET order == sorted(keys)
    IN  [i \in 1..Len(order) |-> LastNamed(products, order[i]).name]

\* all_match with the extra products left out
all_match_no_extras(categories_match, products_match, missing_hcpcs, extra_hcpcs, missing_products, extra_products) ==
    /\ categories_match
    /\ products_match
    /\ Len(missing_hcpcs) = 0
    /\ Len(extra_hcpcs) = 0
    /\ Len(missing_products) = 0

\* comparison['all_match']
all_match(categories_match, products_match, missing_hcpcs, extra_hcpcs, missing_products, extra_products) ==
    /\ categories_match
    /\ products_match
    /\ Len(missing_hcpcs) = 0
    /\ Len(extra_hcpcs) = 0
    /\ Len(missing_products) = 0
    /\ Len(extra_products) = 0

\* the result carries raised = TRUE when before_data['hcpcs_codes'] raises
\* KeyError (a snapshot of parse_html_file has no such key)
compare_inventories(before, after, file_name) ==
    IF "hcpcs_codes" \notin DOMAIN before THEN [raised |-> TRUE, file |-> file_name]
    ELSE
    LET categories_match == before.num_categories = after.num_categories
        products_match   == before.num_products = after.num_products
        before_hcpcs == Range(before.hcpcs_codes)
        after_hcpcs  == {after.products[i].hcpcs :
                            i \in {j \in 1..Len(after.products) :
                                      "hcpcs" \in DOMAIN after.products[j]}}
        missing_hcpcs == sorted(before_hcpcs \ after_hcpcs)
        extra_hcpcs   == sorted(after_hcpcs \ before_hcpcs)
        before_keys == NameKeys(before.products)
        after_keys  == NameKeys(after.products)
        missing_products == NamesOf(before.products, before_keys \ after_keys)
        extra_products   == NamesOf(after.products, after_keys \ before_keys)
    IN  [ raised                |-> FALSE,
          file                  |-> file_name,
          categories_match      |-> categories_match,
          products_match        |-> products_match,
          missing_categories    |-> << >>,
          missing_hcpcs         |-> missing_hcpcs,
          missing_products      |-> missing_products,
          extra_categories      |-> << >>,
          extra_hcpcs           |-> extra_hcpcs,
          extra_products        |-> extra_products,
          before_num_categories |-> before.num_categories,
          after_num_categories  |-> after.num_categories,
          before_num_products   |-> before.num_products,
          after_num_products    |-> after.num_products,
          all_match             |-> all_match(categories_match, products_match,
                                              missing_hcpcs, extra_hcpcs,
                                              missing_products, extra_products) ]

---------------------------------------------------------------------------
(* One comparison: two snapshots, then compare_inventories                   *)

\* sequences over S of length at most n
SeqUpTo(S, n) == UNION {[1..k -> S] : k \in 0..n}

CodePool == { <<"E0100">>, <<"E0130">> }

BeforeProductPool ==
    { [hcpcs |-> <<"E0100">>, name |-> <<"Cane">>],
      [hcpcs |-> <<"E0130">>, name |-> <<"Walker">>] }

AfterProductPool ==
    { [name |-> <<"CANE">>, hcpcs |-> <<"E0100">>],
      [name |-> <<"Walker">>, hcpcs |-> <<"E0130">>],
      [name |-> <<"Walker">>] }

\* the match objects re.search may return for the statistics block
StatsMatches ==
    { [found |-> FALSE, g1 |-> 0, g2 |-> 0, g3 |-> 0] }
    \cup { [found |-> TRUE, g1 |-> a, g2 |-> b, g3 |-> 0] : a, b \in 0..MaxDecl }

\* snapshots parse_inventory_before produces
ReaderSnapshots ==
    { section_data(m, c, h, p) :
        m \in StatsMatches,
        c \in SeqUpTo({<<"Mobility">>}, MaxCats),
        h \in SeqUpTo(CodePool, MaxCodes),
        p \in SeqUpTo(BeforeProductPool, MaxProducts) }

\* snapshots parse_html_file produces
ExtractorSnapshots ==
    { [ categories |-> c, products |-> p,
        num_categories |-> Len(c), num_products |-> Len(p) ] :
        c \in SeqUpTo({<<"Mobility">>}, MaxCats),
        p \in SeqUpTo(AfterProductPool, MaxProducts) }

InitCompare ==
    /\ mode = "compare"
    /\ pc = "ready"
    /\ before_data \in ReaderSnapshots \cup ExtractorSnapshots
    /\ after_data \in ExtractorSnapshots \cup {before_data}
    /\ comparison = NoComparison
    /\ file = << >> /\ nfrag = 0 /\ orig = << >> /\ strip_ok = FALSE
    /\ IdleReader
    /\ IdleReport
    /\ IdleRun

Compare ==
    /\ mode = "compare" /\ pc = "ready"
    /\ comparison' = compare_inventories(before_data, after_data,
                                         "catalog_mobility_aids.html")
    /\ pc' = "compared"
    /\ UNCHANGED <<mode, before_data, extractVars, readerVars, reportVars, runVars>>

NextCompare == Compare

SpecCompare == InitCompare /\ [][NextCompare]_vars

---------------------------------------------------------------------------
(* validate_inventory.py: generate_report *)

\* the number of entries of a product list the report shows
DisplayCap == 10

(* A report line is a record: k names the format string, s its constant    *)
(* text, t, a, b, ok the values formatted into it.                          *)
ReportLine(k, s, t, a, b, ok) == [k |-> k, s |-> s, t |-> t, a |-> a, b |-> b, ok |-> ok]

Rule  == ReportLine("rule", "=", << >>, 80, 0, TRUE)      \* "=" * 80
Dash  == ReportLine("rule", "-", << >>, 80, 0, TRUE)      \* "-" * 80
Blank == ReportLine("text", "", << >>, 0, 0, TRUE)
Txt(s) == ReportLine("text", s, << >>, 0, 0, TRUE)
\* f"  {s}: {n}"
Total(s, n) == ReportLine("total", s, << >>, n, 0, TRUE)
\* f"  {s}: {'PASS' if ok else 'FAIL'}"
Status(s, ok) == ReportLine("status", s, << >>, 0, 0, ok)
\* f"FILE: {file}"
FileHead(f) == ReportLine("file", f, << >>, 0, 0, TRUE)
\* f"    {metric:<30} {before:<10} {after:<10} {status:<10}"
Row(metric, before, after, ok) == ReportLine("row", metric, << >>, before, after, ok)
\* f"  ✗ {s} ({n}):"
Heading(s, n) == ReportLine("heading", s, << >>, n, 0, TRUE)
\* f"    - {t}"
Item(t) == ReportLine("item", "", t, 0, 0, TRUE)
\* f"    ... and {n} more"
More(n) == ReportLine("more", "", << >>, n, 0, TRUE)

Items(list) == [i \in 1..Len(list) |-> Item(list[i])]

\* sum(c[field] for c in comparisons)
RECURSIVE SumOf(_, _)
SumOf(cs, field) ==
    IF cs = << >> THEN 0 ELSE Head(cs)[field] + SumOf(Tail(cs), field)

\* all(c['all_match'] for c in comparisons)
AllPass(cs) == \A i \in 1..Len(cs) : cs[i].all_match

\* for x in list: append(item)           (the two code lists)
FullList(s, list) ==
    IF Len(list) = 0 THEN << >>
    ELSE <<Heading(s, Len(list))>> \o Items(list) \o <<Blank>>

\* for x in list[:10]: append(item); if len(list) > 10: append(more)
CappedList(s, list) ==
    IF Len(list) = 0 THEN << >>
    ELSE <<Heading(s, Len(list))>>
            \o Items(Slice(list, 1, IF Len(list) < DisplayCap THEN Len(list) ELSE DisplayCap))
            \o (IF Len(list) > DisplayCap THEN <<More(Len(list) - DisplayCap)>> ELSE << >>)
            \o <<Blank>>

\* the block of one comparison (lines 286-346)
FileBlock(c) ==
    LET has_issues == \/ Len(c.missing_hcpcs) > 0 \/ Len(c.extra_hcpcs) > 0
                      \/ Len(c.missing_products) > 0 \/ Len(c.extra_products) > 0
    IN  << Dash, FileHead(c.file), Dash, Blank,
           Txt("COUNTS COMPARISON:"), Txt("Metric Before After Status"), Txt("table rule"),
           Row("Categories", c.before_num_categories, c.after_num_categories,
               c.categories_match),
           Row("Products", c.before_num_products, c.after_num_products,
               c.products_match),
           Blank >>
        \o FullList("MISSING HCPCS CODES", c.missing_hcpcs)
        \o FullList("EXTRA HCPCS CODES", c.extra_hcpcs)
        \o CappedList("MISSING PRODUCTS", c.missing_products)
        \o CappedList("EXTRA PRODUCTS", c.extra_products)
        \o (IF has_issues THEN << >>
            ELSE << Txt("NO ISSUES FOUND"), Txt("All categories preserved"),
                    Txt("All products preserved"), Txt("All HCPCS codes preserved"),
                    Blank >>)
        \o << Status("File Status", c.all_match), Blank >>

RECURSIVE FileBlocks(_)
FileBlocks(cs) ==
    IF cs = << >> THEN << >> ELSE FileBlock(Head(cs)) \o FileBlocks(Tail(cs))

generate_report(before_inv, after_inv, cs) ==
    LET all_pass == AllPass(cs)
    IN  << Rule, Txt("INVENTORY VALIDATION REPORT"), Txt("Generated: 2025-10-28"), Rule,
           Blank, Txt("PURPOSE:"),
           Txt("Verify that simplification process only removed ICD-10 codes,"),
           Txt("clinical indications, and documentation requirements while"),
           Txt("preserving all categories, products, and HCPCS codes."),
           Blank, Rule, Txt("OVERALL SUMMARY"), Rule, Blank,
           Txt("Total Files Processed: 7"),
           Total("Total Categories (Before)", SumOf(cs, "before_num_categories")),
           Total("Total Categories (After)", SumOf(cs, "after_num_categories")),
           Total("Total Products (Before)", SumOf(cs, "before_num_products")),
           Total("Total Products (After)", SumOf(cs, "after_num_products")),
           Blank, Status("Overall Status", all_pass), Blank >>
        \o (IF all_pass
            THEN << Txt("All categories preserved"), Txt("All products preserved"),
                    Txt("All HCPCS codes preserved"), Txt("Validation successful!") >>
            ELSE << Txt("Issues found - see detailed comparison below") >>)
        \o << Blank, Rule, Txt("DETAILED FILE-BY-FILE COMPARISON"), Rule, Blank >>
        \o FileBlocks(cs)
        \o << Rule, Txt("VALIDATION CONCLUSION"), Rule, Blank >>
        \o (IF all_pass
            THEN << Txt("VALIDATION PASSED"), Blank,
                    Txt("The simplification process successfully:"),
                    Txt("Preserved all categories"), Txt("Preserved all products"),
                    Txt("Preserved all HCPCS codes"), Txt("Maintained data integrity"),
                    Blank,
                    Txt("Only ICD-10 codes, clinical indications, and documentation"),
                    Txt("requirements were removed as intended.") >>
            ELSE << Txt("VALIDATION FAILED"), Blank,
                    Txt("Issues were found during validation."),
                    Txt("Please review the detailed comparison above.") >>)
        \o << Blank, Rule >>

---------------------------------------------------------------------------
(* One report: a comparison result, then generate_report                     *)

\* n codes E0101, E0102, ... in ascending order
CodeList(n) == [i \in 1..n |-> <<"E0", ToString(100 + i)>>]

\* n product names in ascending order of their upper-case keys
NameList(s, n) == [i \in 1..n |-> <<s, ToString(100 + i)>>]

\* a result of compare_inventories with lists of the given lengths
ComparisonOf(mc, xc, mp, xp, cats, prods) ==
    [ raised                |-> FALSE,
      file                  |-> "catalog_mobility_aids.html",
      categories_match      |-> cats,
      products_match        |-> prods,
      missing_categories    |-> << >>,
      missing_hcpcs         |-> CodeList(mc),
      missing_products      |-> NameList("Cane", mp),
      extra_categories      |-> << >>,
      extra_hcpcs           |-> CodeList(xc),
      extra_products        |-> NameList("Walker", xp),
      before_num_categories |-> IF cats THEN 2 ELSE 3,
      after_num_categories  |-> 2,
      before_num_products   |-> IF prods THEN 20 ELSE 21,
      after_num_products    |-> 20,
      all_match             |-> cats /\ prods /\ mc = 0 /\ xc = 0 /\ mp = 0 /\ xp = 0 ]

\* the list lengths tried: none, one, the cap, one more, the 15 of the example
ListLengths == {0, 1, DisplayCap, DisplayCap + 1, 15}

InitReport ==
    /\ mode = "report"
    /\ pc = "ready"
    /\ \E mc, xc, mp, xp \in ListLengths, cats, prods \in BOOLEAN :
          comparisons = << ComparisonOf(mc, xc, mp, xp, cats, prods) >>
    /\ report = << >>
    /\ IdleExtract
    /\ IdleReader
    /\ IdleCompare
    /\ IdleRun

Render ==
    /\ mode = "report" /\ pc = "ready"
    /\ report' = generate_report(before_inventory, after_data, comparisons)
    /\ pc' = "rendered"
    /\ UNCHANGED <<mode, comparisons, extractVars, readerVars, compareVars, runVars>>

NextReport == Render

SpecReport == InitReport /\ [][NextReport]_vars

---------------------------------------------------------------------------
(* validate_inventory.py: main *)

\* the fixed list of catalog files (the same list in both scripts)
html_files ==
    << "catalog_diabetic_hospital.html",
       "catalog_mobility_aids.html",
       "catalog_orthotic_prosthetic.html",
       "catalog_patient_care.html",
       "catalog_specialized.html",
       "catalog_surgical_dressings.html",
       "catalog_therapeutic.html" >>

FileNames == {html_files[i] : i \in 1..Len(html_files)}

\* open(path, 'r') succeeds
Readable(f) == disk[f].status \in {"ok", "readonly"}

\* an uncaught exception ends the script with a traceback and status 1
Crash ==
    /\ pc' = "crashed"
    /\ exit_status' = 1

\* before_inventory = parse_inventory_before(...)
ReadBefore ==
    /\ mode = "validate" /\ pc = "start"
    /\ \/ /\ ~inv_ok
          /\ Crash
          /\ UNCHANGED <<before_inventory, idx>>
       \/ /\ inv_ok
          /\ before_inventory' = parse_inventory_before(inventory)
          /\ pc' = "parse_html"
          /\ idx' = 1
          /\ UNCHANGED exit_status
    /\ UNCHANGED <<mode, inventory, nblock, extractVars, compareVars, reportVars,
                   disk, inv_ok, after_inventory, success_count, log>>

\* one round of: for html_file in html_files: after_inventory[html_file] = ...
ParseNext ==
    /\ mode = "validate" /\ pc = "parse_html"
    /\ LET html_file == html_files[idx]
       IN  \/ /\ ~Readable(html_file)
              /\ Crash
              /\ UNCHANGED <<after_inventory, idx>>
           \/ /\ Readable(html_file)
              /\ after_inventory' =
                    (html_file :> parse_html_file(disk[html_file].content))
                        @@ after_inventory
              /\ IF idx = Len(html_files)
                 THEN pc' = "compare" /\ idx' = 1
                 ELSE pc' = pc /\ idx' = idx + 1
              /\ UNCHANGED exit_status
    /\ UNCHANGED <<mode, extractVars, readerVars, compareVars, reportVars,
                   disk, inv_ok, success_count, log>>

\* one round of: for html_file in html_files: comparisons.append(...)
CompareNext ==
    /\ mode = "validate" /\ pc = "compare"
    /\ LET html_file == html_files[idx]
       IN  \/ /\ html_file \notin DOMAIN before_inventory    \* KeyError
              /\ Crash
              /\ UNCHANGED <<comparisons, idx>>
           \/ /\ html_file \in DOMAIN before_inventory
              /\ comparisons' =
                    Append(comparisons,
                           compare_inventories(before_inventory[html_file],
                                               after_inventory[html_file], html_file))
              /\ IF idx = Len(html_files)
                 THEN pc' = "report" /\ idx' = idx
                 ELSE pc' = pc /\ idx' = idx + 1
              /\ UNCHANGED exit_status
    /\ UNCHANGED <<mode, extractVars, readerVars, compareVars, report,
                   disk, inv_ok, after_inventory, success_count, log>>

\* the exit status main returns
Verdict(cs) == IF AllPass(cs) THEN 0 ELSE 1

\* the report is generated and written (the write is taken to succeed), the
\* summary printed and the status returned
WriteReport ==
    /\ mode = "validate" /\ pc = "report"
    /\ report' = generate_report(before_inventory, after_inventory, comparisons)
    /\ exit_status' = Verdict(comparisons)
    /\ pc' = "done"
    /\ UNCHANGED <<mode, extractVars, readerVars, compareVars, comparisons,
                   disk, inv_ok, idx, after_inventory, success_count, log>>

---------------------------------------------------------------------------
(* One validation run: the files on disk, then main                          *)

CardWith(name, code) ==
    << "CARD", "WS", "NAME", name, "DIVC", "WS",
       "ROW", "DIV", "HCPCS Code", "DIVC", "DIV", "HC", code, "SPANC", "DIVC", "DIVC",
       "WS", "DIVC" >>

CardWithout(name) == << "CARD", "WS", "NAME", name, "DIVC", "WS", "DIVC" >>

DocStart == << "RULE_CARD_15_AVOID", "CAT", "Mobility", "DIVC", "WS" >>

\* a stripped catalog with two products
DocFull == DocStart \o CardWith("Cane", "E0100") \o CardWith("Walker", "E0130")
\* the same with the names in upper case
DocUpper == DocStart \o CardWith("CANE", "E0100") \o CardWith("WALKER", "E0130")
\* the same with the second product lost
DocLost == DocStart \o CardWith("Cane", "E0100")
\* the same with the code of the second product lost
DocNoCode == DocStart \o CardWith("Cane", "E0100") \o CardWithout("Walker")
\* the same without its category header
DocNoCategory == <<"RULE_CARD_15_AVOID">> \o CardWith("Cane", "E0100")
                     \o CardWith("Walker", "E0130")

StatsLines(c, p, u) ==
    << Plain("STATS"), NumLine("TOTCAT", c), NumLine("TOTPROD", p), NumLine("UNIQ", u),
       Plain("BLANK") >>

ListLines2 ==
    << Plain("CATS"), CatLine(<<"Mobility">>), Plain("BLANK"),
       Plain("CODES"), CodeLine(<<"E0100">>), CodeLine(<<"E0130">>), Plain("BLANK"),
       Plain("PRODS"), ProdLine(<<"E0100">>, <<"Cane">>),
       ProdLine(<<"E0130">>, <<"Walker">>), Plain("BLANK"), Plain("BLANK") >>

\* the section of DocFull in inventory_before.txt
SectionFull == <<Plain("BLANK")>> \o StatsLines(1, 2, 2) \o ListLines2
\* the same without its statistics
SectionNoStats == <<Plain("BLANK")>> \o ListLines2
\* the same declaring one product more than it lists
SectionDeclaredMore == <<Plain("BLANK")>> \o StatsLines(1, 3, 2) \o ListLines2

\* a catalog and its section as they should be, and the ways one may differ
Sound == [status |-> "ok", content |-> DocFull, listed |-> TRUE, section |-> SectionFull]

Faults ==
    { [Sound EXCEPT !.status = "unreadable"],
      [Sound EXCEPT !.status = "missing"],
      [Sound EXCEPT !.content = DocUpper],
      [Sound EXCEPT !.content = DocLost],
      [Sound EXCEPT !.content = DocNoCode],
      [Sound EXCEPT !.content = DocNoCategory],
      [Sound EXCEPT !.listed = FALSE],
      [Sound EXCEPT !.section = SectionNoStats],
      [Sound EXCEPT !.section = SectionDeclaredMore] }

\* the worlds in which at most MaxFaults catalogs are not sound
Worlds(sound, faults) ==
    UNION { { [f \in FileNames |-> IF f \in F THEN dev[f] ELSE sound] :
                dev \in [F -> faults] } :
            F \in {G \in SUBSET FileNames : Cardinality(G) <= MaxFaults} }

\* inventory_before.txt: the sections of the listed catalogs, in order
RECURSIVE InventoryOf(_, _)
InventoryOf(world, i) ==
    IF i > Len(html_files) THEN << >>
    ELSE (IF world[html_files[i]].listed
          THEN <<FileLine(html_files[i])>> \o world[html_files[i]].section
          ELSE << >>)
         \o InventoryOf(world, i + 1)

DiskOf(world) ==
    [f \in FileNames |-> [status |-> world[f].status, content |-> world[f].content]]

InitValidate ==
    /\ mode = "validate"
    /\ pc = "start"
    /\ \E world \in Worlds(Sound, Faults) :
          /\ disk = DiskOf(world)
          /\ inventory = InventoryOf(world, 1)
    /\ inv_ok \in BOOLEAN
    /\ nblock = 0
    /\ before_inventory = << >>
    /\ idx = 0
    /\ after_inventory = << >>
    /\ exit_status = -1
    /\ success_count = 0
    /\ log = << >>
    /\ IdleExtract
    /\ IdleCompare
    /\ IdleReport

NextValidate ==
    \/ ReadBefore
    \/ ParseNext
    \/ CompareNext
    \/ WriteReport

SpecValidate == InitValidate /\ [][NextValidate]_vars

---------------------------------------------------------------------------
(* simplify_catalogs.py: main *)

\* one round of: for filename in catalog_files
ProcessNext ==
    /\ mode = "simplify" /\ pc = "loop"
    /\ idx <= Len(html_files)
    /\ LET filename == html_files[idx]
           r == process_file(disk[filename])
       IN  \/ /\ disk[filename].status = "missing"      \* not filepath.exists()
              /\ log' = Append(log, [file |-> filename, outcome |-> "not found"])
              /\ UNCHANGED <<disk, success_count>>
           \/ /\ disk[filename].status # "missing"
              /\ disk' = [disk EXCEPT ![filename].content = r.content]
              /\ log' = Append(log, [file |-> filename,
                                     outcome |-> IF r.ok THEN "completed" ELSE "error"])
              /\ success_count' = IF r.ok THEN success_count + 1 ELSE success_count
    /\ idx' = idx + 1
    /\ UNCHANGED <<mode, pc, extractVars, readerVars, compareVars, reportVars,
                   inv_ok, after_inventory, exit_status>>

\* the summary is printed and the script exits
Summarise ==
    /\ mode = "simplify" /\ pc = "loop"
    /\ idx = Len(html_files) + 1
    /\ log' = Append(log, [file |-> "SUMMARY", outcome |-> ToString(success_count)])
    /\ exit_status' = IF success_count = Len(html_files) THEN 0 ELSE 1
    /\ pc' = "done"
    /\ UNCHANGED <<mode, extractVars, readerVars, compareVars, reportVars,
                   disk, inv_ok, idx, after_inventory, success_count>>

---------------------------------------------------------------------------
(* One stripping run: the files on disk, then main                           *)

RawCard(name, code) ==
    << "CARD", "WS", "NAME", name, "DIVC", "WS",
       "ROW", "DIV", "HCPCS Code", "DIVC", "DIV", "HC", code, "SPANC", "DIVC", "DIVC",
       "WS",
       "ROW", "WS", "ICDLBL", "DIVC", "DIV", "E11.9", "DIVC", "WS", "DIVC", "WS",
       "CLIN", "Indications", "DIVC", "WS",
       "MED", "Documentation", "DIVC", "WS", "DIVC" >>

\* a catalog as generated, with two products
DocRaw ==
    << "RULE_CLIN", "RULE_CARD_20", "RULE_MED", "CAT", "Mobility", "DIVC", "WS" >>
    \o RawCard("Cane", "E0100") \o RawCard("Walker", "E0130")

\* the same without a .product-card style rule
DocNoStyle ==
    << "RULE_CLIN", "RULE_MED", "CAT", "Mobility", "DIVC", "WS" >>
    \o RawCard("Cane", "E0100") \o RawCard("Walker", "E0130")

RawSound == [Sound EXCEPT !.content = DocRaw]

RawFaults ==
    { [RawSound EXCEPT !.status = "missing"],
      [RawSound EXCEPT !.status = "unreadable"],
      [RawSound EXCEPT !.status = "readonly"],
      [RawSound EXCEPT !.content = DocNoStyle],
      [RawSound EXCEPT !.content = DocFull],
      [RawSound EXCEPT !.content = << >>] }

InitSimplify ==
    /\ mode = "simplify"
    /\ pc = "loop"
    /\ \E world \in Worlds(RawSound, RawFaults) : disk = DiskOf(world)
    /\ idx = 1
    /\ inv_ok = TRUE
    /\ after_inventory = << >>
    /\ exit_status = -1
    /\ success_count = 0
    /\ log = << >>
    /\ file = << >> /\ nfrag = 0 /\ strip_ok = FALSE /\ after_data = NoData
    /\ orig = disk
    /\ IdleReader
    /\ IdleCompare
    /\ IdleReport

NextSimplify ==
    \/ ProcessNext
    \/ Summarise

SpecSimplify == InitSimplify /\ [][NextSimplify]_vars

---------------------------------------------------------------------------
(* Both batch jobs; the comparator alone and within a validation run         *)

InitJobs == InitValidate \/ InitSimplify

NextJobs == NextValidate \/ NextSimplify

SpecJobs == InitJobs /\ [][NextJobs]_vars

InitVerdict == InitCompare \/ InitValidate

NextVerdict == NextCompare \/ NextValidate

SpecVerdict == InitVerdict /\ [][NextVerdict]_vars

---------------------------------------------------------------------------
(* Claims about stripping and extraction *)

HasPiece(s, t) == \E i \in 1..Len(s) : s[i] = t

\* the product blocks of the file: the text after each product-card marker
CardBlocks(content) == Tail(SplitCards(content, << >>))

\* C1: stripping never alters the inventory: the categories and the (name,
\* code) products parse_html_file extracts from the stripped file are those it
\* extracts from the file as it was.
C1_StripPreservesInventory ==
    (pc = "stripped" /\ strip_ok) =>
        /\ parse_html_file(file).categories = parse_html_file(orig).categories
        /\ parse_html_file(file).products = parse_html_file(orig).products

\* C10: a product block without a code marker yields a product without a
\* code, no extracted product has the empty string as its code, and blocks
\* without a name marker are not counted as products.
C10_AbsentCodesAndNamelessBlocks ==
    pc = "parsed" =>
        /\ \A k \in 1..Len(CardBlocks(file)) :
              ~HasPiece(CardBlocks(file)[k], "HC") =>
                  \A j \in 1..Len(CardProducts(CardBlocks(file)[k])) :
                      "hcpcs" \notin DOMAIN CardProducts(CardBlocks(file)[k])[j]
        /\ \A i \in 1..Len(after_data.products) :
              "hcpcs" \in DOMAIN after_data.products[i] =>
                  after_data.products[i].hcpcs # << >>
        /\ after_data.num_products <=
              Cardinality({k \in 1..Len(CardBlocks(file)) :
                              HasPiece(CardBlocks(file)[k], "NAME")})

\* the category headings of the file whose content holds some non-blank text
NamedHeadings(s) ==
    {i \in 1..Len(s) :
        /\ s[i] = "CAT"
        /\ \E e \in (i + 1)..(Len(s) - 1) :
              /\ s[e + 1] = "DIVC"
              /\ \A m \in (i + 1)..e : IsText(s[m]) \/ IsSpace(s[m])
              /\ \E m \in (i + 1)..e : IsText(s[m])}

\* C11: a category heading whose content is only whitespace is discarded: no
\* extracted category is the empty string, and the number of categories is
\* the number of headings that hold some text.
C11_BlankCategoriesDiscarded ==
    pc = "parsed" =>
        /\ \A i \in 1..Len(after_data.categories) : after_data.categories[i] # << >>
        /\ after_data.num_categories = Cardinality(NamedHeadings(file))

---------------------------------------------------------------------------
(* Claims about the snapshot reader *)

\* the section of the inventory that parse_inventory_before keeps for fname
SectionOf(fname) == LastSection(SplitSections(inventory, 1), fname)

\* the line after line i of ls, empty lines skipped (no such line: {})
Follower(ls, i) ==
    {j \in (i + 1)..Len(ls) :
        /\ ls[j].k # "BLANK"
        /\ \A m \in (i + 1)..(j - 1) : ls[m].k = "BLANK"}

NextLine(ls, i) ==
    IF Follower(ls, i) = {} THEN 0 ELSE CHOOSE j \in Follower(ls, i) : TRUE

\* the lines from s on read STATISTICS: / Total categories: / Total
\* products: / Unique HCPCS codes:, with nothing but empty lines between them
StatsAt(ls, s) ==
    LET a == NextLine(ls, s)
        b == NextLine(ls, a)
        c == NextLine(ls, b)
    IN  /\ ls[s].k = "STATS"
        /\ a > 0 /\ ls[a].k = "TOTCAT"
        /\ b > 0 /\ ls[b].k = "TOTPROD"
        /\ c > 0 /\ ls[c].k = "UNIQ"

StatsStarts(ls) == {s \in 1..Len(ls) : StatsAt(ls, s)}

\* C8: a section with a statistics block reports the declared numbers (of
\* its first block) as its counts; a section without one reports the number
\* of parsed category lines, of parsed product lines and of distinct parsed
\* codes.
C8_DeclaredStatsOrExactCounts ==
    (mode = "reader" /\ pc = "parsed") =>
        \A fname \in DOMAIN before_inventory :
            LET ls == SectionOf(fname)
                d  == before_inventory[fname]
            IN  IF StatsStarts(ls) # {}
                THEN LET s == CHOOSE t \in StatsStarts(ls) :
                                  \A u \in StatsStarts(ls) : t <= u
                         a == NextLine(ls, s)
                         b == NextLine(ls, a)
                         c == NextLine(ls, b)
                     IN  /\ d.num_categories = ls[a].n
                         /\ d.num_products = ls[b].n
                         /\ d.num_unique_hcpcs = ls[c].n
                ELSE /\ d.num_categories = Len(d.categories)
                     /\ d.num_products = Len(d.products)
                     /\ d.num_unique_hcpcs =
                            Cardinality({d.hcpcs_codes[i] : i \in 1..Len(d.hcpcs_codes)})

\* a section declaring 3 products with 1 product line, beside a section
\* without statistics
C8_Witness ==
    /\ mode = "reader" /\ pc = "parsed"
    /\ \E f, g \in DOMAIN before_inventory :
          /\ StatsStarts(SectionOf(f)) # {}
          /\ before_inventory[f].num_products = 3
          /\ Len(before_inventory[f].products) = 1
          /\ StatsStarts(SectionOf(g)) = {}
          /\ before_inventory[g].num_products = Len(before_inventory[g].products)

---------------------------------------------------------------------------
(* Claims about the comparator *)

Compared == mode = "compare" /\ pc = "compared"

\* the codes of the products of a snapshot
ProductCodes(data) ==
    {data.products[i].hcpcs :
        i \in {j \in 1..Len(data.products) : "hcpcs" \in DOMAIN data.products[j]}}

\* seq lists exactly the members of S, in ascending order
IsSortedListOf(seq, S) ==
    /\ {seq[i] : i \in 1..Len(seq)} = S
    /\ \A i \in 1..(Len(seq) - 1) : Less(seq[i], seq[i + 1])

\* C2: comparing a snapshot of the reader or of the extractor against itself
\* gives all_match and four empty difference lists.
C2_SelfCompareMatches ==
    (Compared /\ before_data = after_data) =>
        /\ ~comparison.raised
        /\ comparison.all_match
        /\ comparison.missing_hcpcs = << >>
        /\ comparison.extra_hcpcs = << >>
        /\ comparison.missing_products = << >>
        /\ comparison.extra_products = << >>

\* C3: the missing codes are the codes of before's products that no product
\* of after has, the extra codes those of after's products that no product of
\* before has, both in ascending order, whatever the declared code list holds.
C3_CodeDiffFromProducts ==
    (Compared /\ "hcpcs_codes" \in DOMAIN before_data) =>
        /\ IsSortedListOf(comparison.missing_hcpcs,
                          ProductCodes(before_data) \ ProductCodes(after_data))
        /\ IsSortedListOf(comparison.extra_hcpcs,
                          ProductCodes(after_data) \ ProductCodes(before_data))

\* C4: categories_match says that the two category lists have the same
\* length, products_match that the two product lists have.
C4_CountFlagsCompareLists ==
    (Compared /\ "hcpcs_codes" \in DOMAIN before_data) =>
        /\ comparison.categories_match <=>
              (Len(before_data.categories) = Len(after_data.categories))
        /\ comparison.products_match <=>
              (Len(before_data.products) = Len(after_data.products))

---------------------------------------------------------------------------
(* Claims about the report *)

\* the lines of the report under the heading s, up to the empty line closing
\* the list (no heading: << >>)
ListLines(s, n) ==
    LET H == {i \in 1..Len(report) : report[i] = Heading(s, n)}
    IN  IF H = {} THEN << >>
        ELSE LET h == CHOOSE i \in H : TRUE
                 e == CHOOSE j \in (h + 1)..Len(report) :
                         /\ report[j] = Blank
                         /\ \A m \in (h + 1)..(j - 1) : report[m] # Blank
             IN  Slice(report, h + 1, e - 1)

\* a list of more than 10 entries shows as its first 10 entries and a line
\* counting the rest, a shorter one in full
ShownCapped(s, list) ==
    Len(list) > 0 =>
        ListLines(s, Len(list)) =
            IF Len(list) > 10
            THEN [i \in 1..11 |-> IF i <= 10 THEN Item(list[i]) ELSE More(Len(list) - 10)]
            ELSE [i \in 1..Len(list) |-> Item(list[i])]

\* C9: each of the four lists of a catalog (missing codes, extra codes,
\* missing products, extra products) with more than 10 entries is rendered as
\* its first 10 entries and a line "... and N more"; a list of 10 or fewer is
\* rendered in full.
C9_ListsCappedAtTen ==
    (mode = "report" /\ pc = "rendered") =>
        /\ ShownCapped("MISSING HCPCS CODES", comparisons[1].missing_hcpcs)
        /\ ShownCapped("EXTRA HCPCS CODES", comparisons[1].extra_hcpcs)
        /\ ShownCapped("MISSING PRODUCTS", comparisons[1].missing_products)
        /\ ShownCapped("EXTRA PRODUCTS", comparisons[1].extra_products)

\* the part of C9 about the two product lists
C9_ProductListsCappedAtTen ==
    (mode = "report" /\ pc = "rendered") =>
        /\ ShownCapped("MISSING PRODUCTS", comparisons[1].missing_products)
        /\ ShownCapped("EXTRA PRODUCTS", comparisons[1].extra_products)

---------------------------------------------------------------------------
(* Claims about the two runs *)

\* the script has ended, by returning or by an uncaught exception
Ended == pc \in {"done", "crashed"}

\* the six conditions of a comparison result
SixConditions(c) ==
    /\ c.categories_match
    /\ c.products_match
    /\ c.missing_hcpcs = << >>
    /\ c.extra_hcpcs = << >>
    /\ c.missing_products = << >>
    /\ c.extra_products = << >>

\* C5: all_match is true exactly when the category counts match, the product
\* counts match and the four difference lists are empty; the validation run
\* exits with status 0 exactly when it has an all_match result for every
\* catalog, and with a non-zero status otherwise.
C5_VerdictAndExitStatus ==
    /\ (Compared /\ ~comparison.raised) =>
          (comparison.all_match <=> SixConditions(comparison))
    /\ mode = "validate" =>
          /\ \A i \in 1..Len(comparisons) :
                comparisons[i].all_match <=> SixConditions(comparisons[i])
          /\ Ended =>
                /\ exit_status \in {0, 1}
                /\ exit_status = 0 <=>
                      /\ {comparisons[i].file : i \in 1..Len(comparisons)} = FileNames
                      /\ \A i \in 1..Len(comparisons) : comparisons[i].all_match

\* a run that ended with status 1 on one failing catalog among passing ones
C5_Witness ==
    /\ mode = "validate" /\ pc = "done" /\ exit_status = 1
    /\ Len(comparisons) = Len(html_files)
    /\ \E i, j \in 1..Len(comparisons) :
          /\ comparisons[i].all_match
          /\ ~comparisons[j].all_match
          /\ comparisons[j].categories_match
          /\ comparisons[j].missing_products = << >>
          /\ comparisons[j].missing_hcpcs # << >>

\* C6: when a catalog of the file list has no section in the inventory, the
\* run ends with a report that names that catalog as an error and covers
\* every catalog that has a section.
C6_MissingSectionReported ==
    (mode = "validate" /\ Ended /\ inv_ok /\ \A f \in FileNames : Readable(f)) =>
        \A f \in FileNames \ DOMAIN before_inventory :
            /\ \E i \in 1..Len(report) : report[i].s = f
            /\ \A g \in FileNames \cap DOMAIN before_inventory :
                  \E i \in 1..Len(report) : report[i] = FileHead(g)

\* C7: in both jobs a catalog file that cannot be read or written fails alone:
\* every other file of the list is still processed, each file has its own
\* recorded outcome, and the run ends with its summary.
C7_FileFailuresAreIsolated ==
    /\ (mode = "simplify" /\ Ended) =>
          /\ pc = "done"
          /\ Len(log) = Len(html_files) + 1
          /\ \A k \in 1..Len(html_files) :
                /\ log[k].file = html_files[k]
                /\ log[k].outcome = "completed" <=>
                      (orig[html_files[k]].status = "ok"
                          /\ simplify_html(orig[html_files[k]].content).ok)
          /\ log[Len(log)].file = "SUMMARY"
    /\ (mode = "validate" /\ Ended /\ inv_ok /\ FileNames \subseteq DOMAIN before_inventory) =>
          /\ \A f \in FileNames : Readable(f) => f \in DOMAIN after_inventory
          /\ report # << >>

\* reading the file or simplify_html fails on the file as the run found it
FailsEarly(f) ==
    \/ orig[f].status \in {"missing", "unreadable"}
    \/ ~simplify_html(orig[f].content).ok

\* the positions of the file list the loop has been through
Attempted == 1..(idx - 1)

\* C12: in the stripping job a file is written only with what simplify_html
\* returned for it: a file that is missing, cannot be read or on which
\* simplify_html fails keeps its contents, is recorded as failed and is not
\* counted; a file not yet attempted is untouched; the count is the number
\* of completed files; the run exits with status 0 exactly when all seven
\* files exist and were processed successfully.
C12_WriteAfterSimplifyAndExit ==
    mode = "simplify" =>
        /\ \A k \in Attempted :
              LET f == html_files[k]
              IN  /\ FailsEarly(f) =>
                        /\ disk[f] = orig[f]
                        /\ log[k].outcome # "completed"
                  /\ log[k].outcome = "completed" =>
                        /\ orig[f].status = "ok"
                        /\ disk[f].content = simplify_html(orig[f].content).content
                  /\ log[k].outcome # "completed" => disk[f] = orig[f]
        /\ \A k \in idx..Len(html_files) : disk[html_files[k]] = orig[html_files[k]]
        /\ success_count =
              Cardinality({k \in Attempted : log[k].outcome = "completed"})
        /\ success_count =
              Cardinality({k \in Attempted :
                              ~FailsEarly(html_files[k])
                                  /\ orig[html_files[k]].status = "ok"})
        /\ pc = "done" =>
              (exit_status = 0 <=>
                  \A f \in FileNames :
                      orig[f].status = "ok" /\ simplify_html(orig[f].content).ok)

\* a finished run in which a document without a .product-card rule was left
\* as it was while another file was rewritten
C12_Witness ==
    /\ mode = "simplify" /\ pc = "done" /\ exit_status = 1
    /\ \E f, g \in FileNames :
          /\ orig[f].status = "ok"
          /\ ~simplify_html(orig[f].content).ok
          /\ disk[f] = orig[f]
          /\ disk[g].content # orig[g].content
    /\ success_count = Len(html_files) - 1

====
